---- MODULE Spec2Model ----
(***************************************************************************)
(* Model of changed-habr-articles.py: one run of main() fetches the Habr   *)
(* RSS feed, filters it, removes the links already in the content store,   *)
(* writes one markdown entry and one cover image per new article and then  *)
(* publishes the created files.  Runs repeat against the store the former  *)
(* run left behind.                                                        *)
(*                                                                         *)
(* Text is modelled character by character as a sequence of one-character  *)
(* strings.  A Cyrillic letter is written "cy-<latin name>" in lower case  *)
(* and "CY-<latin name>" in upper case ("CY-M" "cy-i" "cy-r" is the word   *)
(* Mir in Cyrillic script).                                                *)
(***************************************************************************)
EXTENDS Integers, Sequences, FiniteSets, TLC

VARIABLES
    run,              \* number of the current run of main()
    pc,               \* position of main(): the call that comes next
    dry_run,          \* module flag dry_run (line 21)
    exclude_keywords, \* the configured EXCLUDE_KEYWORDS (line 17)
    feed,             \* the items of the RSS document the feed serves
    store,            \* CONTENT_PATH: entry base name -> front matter
    images,           \* IMG_PATH: base names of the .webp files
    store0,           \* store at the start of the current run
    images0,          \* images at the start of the current run
    habr_articles,    \* main's habr_articles
    excluded,         \* fetch_habr_articles' excluded list
    github_articles,  \* main's github_articles (only membership is used)
    new_articles,     \* main's new_articles
    created_files,    \* main's created_files
    image_log,        \* per processed article, the outcome save_image logged
    filename,         \* the last value transliterate_filename returned
    abort_reason,     \* the exception or exit that ended the run, or "none"
    prev_processed,   \* whether the former run got through its loop
    grep_failed       \* whether grep has exited with an error in some run

vars == <<run, pc, dry_run, exclude_keywords, feed, store, images, store0,
          images0, habr_articles, excluded, github_articles, new_articles,
          created_files, image_log, filename, abort_reason,
          prev_processed, grep_failed>>

\* Bounds of the model.
MaxFeed == 2
MaxRuns == 2

-----------------------------------------------------------------------------
(* Characters and Python string primitives *)

\* str.lower() on the characters of the model's alphabet.
LowerOf ==
    "W" :> "w" @@ "B" :> "b" @@ "C" :> "c" @@ "E" :> "e" @@ "L" :> "l" @@
    "M" :> "m" @@ "I" :> "i" @@ "R" :> "r" @@
    "CY-M" :> "cy-m" @@ "CY-I" :> "cy-i"

LowerChar(c) == IF c \in DOMAIN LowerOf THEN LowerOf[c] ELSE c

\* s.lower()
Lower(s) == [i \in 1..Len(s) |-> LowerChar(s[i])]

\* The 'ru' language pack of transliterate, reversed: Cyrillic to Latin.
\* The soft sign becomes an apostrophe, some letters become two characters.
TranslitOf ==
    "cy-m" :> <<"m">> @@ "CY-M" :> <<"M">> @@ "cy-i" :> <<"i">> @@
    "CY-I" :> <<"I">> @@ "cy-r" :> <<"r">> @@ "cy-n" :> <<"n">> @@
    "cy-t" :> <<"t">> @@ "cy-e" :> <<"e">> @@ "cy-v" :> <<"v">> @@
    "cy-soft" :> <<"'">> @@ "cy-yu" :> <<"j", "u">> @@
    "cy-ya" :> <<"j", "a">> @@ "cy-zh" :> <<"z", "h">>

RECURSIVE translit(_)
translit(s) ==
    IF s = <<>> THEN <<>>
    ELSE (IF Head(s) \in DOMAIN TranslitOf THEN TranslitOf[Head(s)]
          ELSE <<Head(s)>>) \o translit(Tail(s))

Digits == {"0", "1", "2", "3", "4", "5", "6", "7", "8", "9"}

LatinLetters ==
    {"a", "b", "c", "d", "e", "f", "g", "h", "i", "j", "l", "m", "n", "r",
     "t", "u", "v", "w", "x", "z",
     "W", "B", "C", "E", "L", "M", "I", "R"}

\* char.isalnum()
isalnum(c) ==
    c \in Digits \cup LatinLetters \cup DOMAIN TranslitOf \cup DOMAIN LowerOf

\* needle in hay
Contains(hay, needle) ==
    \E i \in 0..(Len(hay) - Len(needle)) :
        SubSeq(hay, i + 1, i + Len(needle)) = needle

\* hay.find(needle, start): the lowest 0-based index at or after start, or -1.
Find(hay, needle, start) ==
    LET hits == {i \in start..(Len(hay) - Len(needle)) :
                    SubSeq(hay, i + 1, i + Len(needle)) = needle}
    IN  IF hits = {} THEN -1
        ELSE CHOOSE i \in hits : \A j \in hits : i <= j

\* s[start:end] for 0 <= start; a negative end counts from the end of s.
Slice(s, start, end) ==
    LET e == IF end < 0 THEN Len(s) + end ELSE end
    IN  SubSeq(s, start + 1, IF e > Len(s) THEN Len(s) ELSE e)

\* s.split('?')[0]
BeforeQuery(s) ==
    LET q == Find(s, <<"?">>, 0)
    IN  IF q = -1 THEN s ELSE SubSeq(s, 1, q)

\* s.strip()
RECURSIVE lstrip(_)
lstrip(s) == IF s # <<>> /\ Head(s) = " " THEN lstrip(Tail(s)) ELSE s

RECURSIVE rstrip(_)
rstrip(s) ==
    IF s # <<>> /\ s[Len(s)] = " " THEN rstrip(SubSeq(s, 1, Len(s) - 1))
    ELSE s

strip(s) == lstrip(rstrip(s))

\* s.split(): the maximal runs of non-blank characters of s, in order.
RECURSIVE split(_)
split(s) ==
    LET t == lstrip(s)
        sp == Find(t, <<" ">>, 0)
    IN  IF t = <<>> THEN <<>>
        ELSE IF sp = -1 THEN <<t>>
        ELSE <<SubSeq(t, 1, sp)>> \o split(SubSeq(t, sp + 1, Len(t)))

\* "_".join(words)
RECURSIVE join(_)
join(words) ==
    IF words = <<>> THEN <<>>
    ELSE IF Len(words) = 1 THEN words[1]
    ELSE words[1] \o <<"_">> \o join(Tail(words))

\* str(n) for n >= 0
DigitOf == <<"0", "1", "2", "3", "4", "5", "6", "7", "8", "9">>

RECURSIVE str(_)
str(n) ==
    IF n < 10 THEN <<DigitOf[n + 1]>>
    ELSE str(n \div 10) \o <<DigitOf[(n % 10) + 1]>>

-----------------------------------------------------------------------------
(* Constants of the program *)

EXCLUDE_KEYWORDS ==
    << <<"cy-i", "cy-n", "cy-t", "cy-e", "cy-r", "cy-v", "cy-soft", "cy-yu">>,
       <<"cy-v", "cy-y", "cy-s", "cy-t", "cy-a", "cy-v", "cy-k", "cy-a">>,
       <<"cy-r", "cy-e", "cy-p", "cy-o", "cy-r", "cy-t", "cy-a", "cy-zh">>,
       <<"cy-k", "cy-o", "cy-n", "cy-f", "cy-e", "cy-r", "cy-e", "cy-n",
         "cy-ts", "cy-i", "cy-ya">>,
       <<"w", "b", "c", "e">> >>

EXCLUDE_AUTHORS ==
    << <<"l", "a", "v", "r", "i", "t", "e", "c", "h">>,
       <<"a", "n", "o", "t", "h", "e", "r", "_", "a", "u", "t", "h", "o",
         "r">> >>

\* words[:7]
MaxWords == 7

-----------------------------------------------------------------------------
(* Values read from the feed and written to the store *)

\* An XML element of an item: present with text, present without text
\* (ElementTree gives .text = None), or not in the item (find gives None).
Text(s) == [kind |-> "text", text |-> s]
NoText == [kind |-> "notext", text |-> <<>>]
Absent == [kind |-> "absent", text |-> <<>>]

\* Python's None where a string or a path is expected.
None == [kind |-> "None", text |-> <<>>]
Some(s) == [kind |-> "str", text |-> s]

\* The pubDate texts the model's feeds carry: one that conforms to
\* "%a, %d %b %Y %H:%M:%S %Z", with the date strftime gives, and one that
\* does not conform.
GoodDate == "Mon, 02 Jan 2023 10:00:00 GMT"
BadDate == "2023-01-02T10:00:00Z"
DateOf == GoodDate :> "2023-01-02"

\* '<img src=' and '<img src="'
ImgTag == <<"<", "i", "m", "g", " ", "s", "r", "c", "=">>
ImgTagQuoted == ImgTag \o <<"\"">>

-----------------------------------------------------------------------------
(* The functions of the program *)

\* Rules in another order: keywords before the author.
exclusion_reason_keywords_first(title, description, creator, categories, keywords) ==
    IF \E k \in 1..Len(keywords) :
           Contains(Lower(title) \o Lower(description), keywords[k])
    THEN "keyword in title/description"
    ELSE IF \E c \in 1..Len(categories) : \E k \in 1..Len(keywords) :
           Contains(Lower(categories[c]), keywords[k])
    THEN "keyword in category"
    ELSE IF \E a \in 1..Len(EXCLUDE_AUTHORS) :
           Contains(Lower(creator), Lower(EXCLUDE_AUTHORS[a]))
    THEN "author excluded"
    ELSE "None"

\* Lines 89-95: the exclusion reason of one item, "None" when it is kept.
exclusion_reason(title, description, creator, categories, keywords) ==
    IF \E a \in 1..Len(EXCLUDE_AUTHORS) :
           Contains(Lower(creator), Lower(EXCLUDE_AUTHORS[a]))
    THEN "author excluded"
    ELSE IF \E k \in 1..Len(keywords) :
           Contains(Lower(title) \o Lower(description), keywords[k])
    THEN "keyword in title/description"
    ELSE IF \E c \in 1..Len(categories) : \E k \in 1..Len(keywords) :
           Contains(Lower(categories[c]), keywords[k])
    THEN "keyword in category"
    ELSE "None"

extract_image_url(description) ==
    IF Contains(description, ImgTag)
    THEN LET start == Find(description, ImgTag, 0) + Len(ImgTagQuoted)
             end == Find(description, <<"\"">>, start)
         IN  Some(Slice(description, start, end))
    ELSE None

\* [cat.text for cat in item.findall("category") if cat.text]
CategoryTexts(cats) ==
    LET withText == SelectSeq(cats, LAMBDA c : c.kind = "text")
    IN  [i \in 1..Len(withText) |-> withText[i].text]

\* Lines 82-105 for one item: the exception it raises, or the article or
\* the exclusion it appends.  .text of an element that find did not find
\* raises AttributeError; strptime of a non-conforming text raises
\* ValueError.
ParseItem(item, keywords) ==
    IF \/ item.title.kind = "absent" \/ item.description.kind = "absent"
       \/ item.creator.kind = "absent" \/ item.pubDate.kind = "absent"
    THEN [status |-> "AttributeError"]
    ELSE IF item.pubDate.text \notin DOMAIN DateOf
    THEN [status |-> "strptime ValueError"]
    ELSE IF item.link.kind # "text"
    THEN [status |-> "AttributeError"]
    ELSE LET reason == exclusion_reason(item.title.text, item.description.text,
                           item.creator.text, CategoryTexts(item.categories),
                           keywords)
         IN  IF reason # "None"
             THEN [status |-> "ok", kept |-> FALSE,
                   entry |-> [link |-> BeforeQuery(item.link.text),
                              reason |-> reason]]
             ELSE [status |-> "ok", kept |-> TRUE,
                   entry |-> [title |-> item.title.text,
                              link |-> BeforeQuery(item.link.text),
                              image_url |-> extract_image_url(item.description.text),
                              date |-> DateOf[item.pubDate.text]]]

\* The loop of lines 81-105 from item i on.
RECURSIVE ParseItems(_, _, _, _, _)
ParseItems(items, i, keywords, articles, excl) ==
    IF i > Len(items)
    THEN [status |-> "ok", articles |-> articles, excluded |-> excl]
    ELSE LET r == ParseItem(items[i], keywords)
         IN  IF r.status # "ok"
             THEN [status |-> r.status, articles |-> <<>>, excluded |-> <<>>]
             ELSE IF r.kept
             THEN ParseItems(items, i + 1, keywords,
                             Append(articles, r.entry), excl)
             ELSE ParseItems(items, i + 1, keywords,
                             articles, Append(excl, r.entry))

\* A parser that skips an item it cannot parse instead of raising.
RECURSIVE ParseItemsSkipping(_, _, _, _, _)
ParseItemsSkipping(items, i, keywords, articles, excl) ==
    IF i > Len(items)
    THEN [status |-> "ok", articles |-> articles, excluded |-> excl]
    ELSE LET r == ParseItem(items[i], keywords)
         IN  IF r.status # "ok"
             THEN ParseItemsSkipping(items, i + 1, keywords, articles, excl)
             ELSE IF r.kept
             THEN ParseItemsSkipping(items, i + 1, keywords,
                                     Append(articles, r.entry), excl)
             ELSE ParseItemsSkipping(items, i + 1, keywords,
                                     articles, Append(excl, r.entry))

\* A fetch that swallows every failure and returns what it could parse.
fetch_habr_articles_lenient(response, items, keywords) ==
    IF response # "ok"
    THEN [status |-> "ok", articles |-> <<>>, excluded |-> <<>>]
    ELSE ParseItemsSkipping(items, 1, keywords, <<>>, <<>>)

\* fetch_habr_articles: response is what requests.get and ET.fromstring
\* make of the feed ("ok", an HTTP error, an unparseable document).
fetch_habr_articles(response, items, keywords) ==
    IF response = "http_error"
    THEN [status |-> "HTTPError", articles |-> <<>>, excluded |-> <<>>]
    ELSE IF response = "unparseable"
    THEN [status |-> "ParseError", articles |-> <<>>, excluded |-> <<>>]
    ELSE ParseItems(items, 1, keywords, <<>>, <<>>)

\* fetch_github_articles: the text after "url: " of every line grep finds,
\* stripped.  grep exits 1 when no line matches and 2 on an error; both
\* raise CalledProcessError and the function returns [].
fetch_github_articles(st, grep_error) ==
    IF grep_error \/ DOMAIN st = {}
    THEN {}
    ELSE {strip(st[n].url) : n \in DOMAIN st}

\* A filter that lets every article through.
NewArticlesUnfiltered(articles, github) == articles

\* Line 268.
NewArticles(articles, github) ==
    SelectSeq(articles, LAMBDA a : a.link \notin github)

\* Lines 39-44: the base name of a title.
BaseName(title) ==
    LET translit_title == Lower(translit(title))
        clean_title == SelectSeq(translit_title,
                                 LAMBDA c : isalnum(c) \/ c = " ")
        words == split(clean_title)
    IN  join(SubSeq(words, 1, IF Len(words) < MaxWords THEN Len(words)
                              ELSE MaxWords))

\* Lines 47-51: the loop over os.path.exists.
RECURSIVE FreeName(_, _, _, _)
FreeName(base_filename, name, counter, st) ==
    IF name \in DOMAIN st
    THEN FreeName(base_filename, base_filename \o <<"_">> \o str(counter),
                  counter + 1, st)
    ELSE name

\* The base name without the existence check.
transliterate_filename_unchecked(title, st) == BaseName(title)

\* transliterate_filename against the entry files st holds.
transliterate_filename(title, st) ==
    FreeName(BaseName(title), BaseName(title), 1, st)

\* create_markdown_file: the store with the entry written (open "w"
\* replaces a file of that name).
create_markdown_file(title, link, name, date, st) ==
    [n \in DOMAIN st \cup {name} |->
        IF n = name
        THEN [title |-> title, url |-> link, cover |-> name, date |-> date,
              category |-> "IMPORTED_SELECT_CATEGORY"]
        ELSE st[n]]

\* save_image without the except clause: a failure propagates.
save_image_raising(image_url, name, outcome, imgs) ==
    IF image_url.kind = "None" \/ image_url.text = <<>> \/ outcome # "saved"
    THEN [raised |-> TRUE, img_file |-> None, images |-> imgs,
          log |-> outcome]
    ELSE [raised |-> FALSE, img_file |-> Some(name),
          images |-> imgs \cup {name}, log |-> "saved"]

\* save_image: outcome is what the download, the decoding and the
\* encoding come to.  requests.get of None or of "" raises, so an article
\* without an image URL takes the except clause as well.
save_image(image_url, name, outcome, imgs) ==
    IF image_url.kind = "None" \/ image_url.text = <<>>
    THEN [raised |-> FALSE, img_file |-> None, images |-> imgs,
          log |-> "no_url"]
    ELSE IF outcome # "saved"
    THEN [raised |-> FALSE, img_file |-> None, images |-> imgs,
          log |-> outcome]
    ELSE [raised |-> FALSE, img_file |-> Some(name),
          images |-> imgs \cup {name}, log |-> "saved"]

-----------------------------------------------------------------------------
(* The feeds and the stores the model starts from *)

Item(title, description, creator, categories, link, pubDate) ==
    [title |-> title, description |-> description, creator |-> creator,
     categories |-> categories, link |-> link, pubDate |-> pubDate]

Mir == <<"CY-M", "cy-i", "cy-r">>
ImgHtml == ImgTagQuoted \o <<"u", "\"", ">">>

\* Kept: a Cyrillic title, a cover image, a link without a query.
ItemMir ==
    Item(Text(Mir), Text(ImgHtml), Text(<<"w", "b">>), <<>>,
         Text(<<"a">>), Text(GoodDate))

\* Kept: a title with the base name of ItemMir's, no image, the link of
\* ItemMir with a query string.
ItemMirAgain ==
    Item(Text(<<"cy-m", "cy-i", "cy-r", "!">>), Text(<<"t">>),
         Text(<<"w", "b">>), <<Text(<<"x">>)>>,
         Text(<<"a", "?", "x">>), Text(GoodDate))

\* Kept: title, description, creator and category without text, a link
\* with a trailing blank.
ItemNoText ==
    Item(NoText, NoText, NoText, <<NoText>>, Text(<<"b", " ">>),
         Text(GoodDate))

\* Kept: a title of eight words, an image tag whose quote never closes.
ItemLong ==
    Item(Text(<<"a", " ", "b", " ", "c", " ", " ", "d", " ", "e", " ", "f",
                " ", "g", " ", "h">>),
         Text(<<"t">> \o ImgTagQuoted \o <<"u">>), Text(<<"w", "b">>), <<>>,
         Text(<<"b", "?", "y">>), Text(GoodDate))

\* No title element.
ItemNoTitle ==
    Item(Absent, Text(ImgHtml), Text(<<"w", "b">>), <<>>, Text(<<"c">>),
         Text(GoodDate))

\* A publish timestamp in another format.
ItemBadDate ==
    Item(Text(Mir), Text(ImgHtml), Text(<<"w", "b">>), <<>>, Text(<<"c">>),
         Text(BadDate))

\* An excluded author and a publish timestamp in another format.
ItemAuthorBadDate ==
    Item(Text(Mir), Text(ImgHtml),
         Text(<<"L", "a", "v", "r", "i", "t", "e", "c", "h">>), <<>>,
         Text(<<"c", "?", "x">>), Text(BadDate))

\* An excluded author, and the keyword wbce across title and description.
ItemAuthor ==
    Item(Text(<<"W", "B">>), Text(<<"c", "e">>),
         Text(<<"L", "a", "v", "r", "i", "t", "e", "c", "h">>), <<>>,
         Text(<<"d", "?", "z">>), Text(GoodDate))

\* A Cyrillic keyword in the title, first letter in upper case.
ItemKeywordTitle ==
    Item(Text(<<"CY-I", "cy-n", "cy-t", "cy-e", "cy-r", "cy-v", "cy-soft",
                "cy-yu">>),
         NoText, Text(<<"w", "b">>), <<>>, Text(<<"e">>), Text(GoodDate))

\* The keyword wbce, in upper case, in the second category only.
ItemKeywordCategory ==
    Item(Text(<<"M", "i", "r">>), Text(ImgHtml), Text(<<"w", "b">>),
         <<Text(<<"x">>), Text(<<"W", "B", "C", "E">>)>>,
         Text(<<"f">>), Text(GoodDate))

Catalogue ==
    {ItemMir, ItemMirAgain, ItemNoText, ItemLong, ItemNoTitle, ItemBadDate,
     ItemAuthorBadDate, ItemAuthor, ItemKeywordTitle, ItemKeywordCategory}

\* A feed document: at most MaxFeed items, no item twice.
Feeds ==
    {f \in UNION {[1..n -> Catalogue] : n \in 0..MaxFeed} :
        \A i, j \in 1..Len(f) : i # j => f[i] # f[j]}

Entry(title, url, name) ==
    [title |-> title, url |-> url, cover |-> name, date |-> "2022-12-31",
     category |-> "News"]

\* Stores a run may find: empty, or ItemMir imported before as mir.md
\* beside an entry of another link that holds the name mir_1.md.
StoreEmpty == [n \in {} |-> Entry(<<>>, <<>>, <<>>)]
StoreMir ==
    <<"m", "i", "r">> :> Entry(Mir, <<"a">>, <<"m", "i", "r">>) @@
    <<"m", "i", "r", "_", "1">> :>
        Entry(Mir, <<"h">>, <<"m", "i", "r", "_", "1">>)

InitStores == {StoreEmpty, StoreMir}

\* EXCLUDE_KEYWORDS with wbce configured in upper case.
KeywordsUpper ==
    [i \in 1..Len(EXCLUDE_KEYWORDS) |->
        IF EXCLUDE_KEYWORDS[i] = <<"w", "b", "c", "e">>
        THEN <<"W", "B", "C", "E">> ELSE EXCLUDE_KEYWORDS[i]]

KeywordConfigs == {EXCLUDE_KEYWORDS, KeywordsUpper}

-----------------------------------------------------------------------------
(* The state machine: main() step by step *)

Responses == {"ok", "http_error", "unparseable"}
ImageOutcomes == {"saved", "fetch_error", "decode_error"}

InitWith(keywordConfigs) ==
    /\ run = 1
    /\ pc = "clone"
    /\ dry_run \in BOOLEAN
    /\ exclude_keywords \in keywordConfigs
    /\ feed \in Feeds
    /\ store \in InitStores
    /\ images = DOMAIN store
    /\ store0 = store
    /\ images0 = images
    /\ habr_articles = <<>>
    /\ excluded = <<>>
    /\ github_articles = {}
    /\ new_articles = <<>>
    /\ created_files = <<>>
    /\ image_log = <<>>
    /\ filename = <<>>
    /\ abort_reason = "none"
    /\ prev_processed = FALSE
    /\ grep_failed = FALSE

\* The program as written: the keyword list of line 17.
Init == InitWith({EXCLUDE_KEYWORDS})

\* The program with the keyword list configured in either letter case.
InitCfg == InitWith(KeywordConfigs)

Abort(reason) ==
    /\ pc' = "aborted"
    /\ abort_reason' = reason

\* clone_or_update_repo: the git commands succeed, or one fails and
\* run_command exits.  What git does to the working tree is the store
\* collaborator's business: the run starts from the store as it is.
CloneOrUpdateRepo ==
    /\ pc = "clone"
    /\ \/ /\ pc' = "fetch_habr"
          /\ UNCHANGED abort_reason
       \/ Abort("git clone")
    /\ UNCHANGED <<run, dry_run, exclude_keywords, feed, store, images,
                   store0, images0, habr_articles, excluded, github_articles,
                   new_articles, created_files, image_log, filename,
                   prev_processed, grep_failed>>

\* Line 266: fetch_habr_articles.
FetchHabrArticles ==
    /\ pc = "fetch_habr"
    /\ \E response \in Responses :
         LET r == fetch_habr_articles(response, feed, exclude_keywords)
         IN  IF r.status = "ok"
             THEN /\ habr_articles' = r.articles
                  /\ excluded' = r.excluded
                  /\ pc' = "fetch_github"
                  /\ UNCHANGED abort_reason
             ELSE /\ Abort(r.status)
                  /\ UNCHANGED <<habr_articles, excluded>>
    /\ UNCHANGED <<run, dry_run, exclude_keywords, feed, store, images,
                   store0, images0, github_articles, new_articles,
                   created_files, image_log, filename, prev_processed,
                   grep_failed>>

\* Lines 267-275: fetch_github_articles, the filter, the early return.
FetchGithubArticles ==
    /\ pc = "fetch_github"
    /\ \E grep_error \in BOOLEAN :
         LET github == fetch_github_articles(store, grep_error)
             new == NewArticles(habr_articles, github)
         IN  /\ github_articles' = github
             /\ new_articles' = new
             /\ pc' = IF new = <<>> THEN "done" ELSE "process"
             /\ grep_failed' = (grep_failed \/ grep_error)
    /\ UNCHANGED <<run, dry_run, exclude_keywords, feed, store, images,
                   store0, images0, habr_articles, excluded, created_files,
                   image_log, filename, abort_reason, prev_processed>>

\* Lines 276-280: the loop body for the next article.
ProcessArticle ==
    /\ pc = "process"
    /\ \E outcome \in ImageOutcomes :
         LET article == new_articles[Len(created_files) + 1]
             name == transliterate_filename(article.title, store)
             written == create_markdown_file(article.title, article.link,
                                             name, article.date, store)
             img == save_image(article.image_url, name, outcome, images)
         IN  /\ filename' = name
             /\ store' = written
             /\ images' = img.images
             /\ IF img.raised
                THEN /\ Abort("Exception")
                     /\ UNCHANGED <<created_files, image_log>>
                ELSE /\ created_files' =
                            Append(created_files, <<Some(name), img.img_file>>)
                     /\ image_log' = Append(image_log, img.log)
                     /\ pc' = IF Len(created_files) + 1 = Len(new_articles)
                              THEN "publish" ELSE "process"
                     /\ UNCHANGED abort_reason
    /\ UNCHANGED <<run, dry_run, exclude_keywords, feed, store0, images0,
                   habr_articles, excluded, github_articles, new_articles,
                   prev_processed, grep_failed>>

\* Line 282: commit_and_push_changes.  os.path.relpath(None, ...) raises
\* ValueError for the first pair without an image; a failing git or gh
\* command exits.
CommitAndPushChanges ==
    /\ pc = "publish"
    /\ \/ /\ \E i \in 1..Len(created_files) :
                created_files[i][2].kind = "None"
          /\ Abort("relpath ValueError")
       \/ /\ \A i \in 1..Len(created_files) :
                created_files[i][2].kind # "None"
          /\ \/ /\ pc' = "done"
                /\ UNCHANGED abort_reason
             \/ /\ ~dry_run
                /\ Abort("git push")
    /\ UNCHANGED <<run, dry_run, exclude_keywords, feed, store, images,
                   store0, images0, habr_articles, excluded, github_articles,
                   new_articles, created_files, image_log, filename,
                   prev_processed, grep_failed>>

\* The script is started again, with or without --dry-run, against the
\* same feed and the store the former run left.
NextRun ==
    /\ pc \in {"done", "aborted"}
    /\ run < MaxRuns
    /\ run' = run + 1
    /\ pc' = "clone"
    /\ dry_run' \in BOOLEAN
    /\ store0' = store
    /\ images0' = images
    /\ habr_articles' = <<>>
    /\ excluded' = <<>>
    /\ github_articles' = {}
    /\ new_articles' = <<>>
    /\ created_files' = <<>>
    /\ image_log' = <<>>
    /\ filename' = <<>>
    /\ abort_reason' = "none"
    /\ prev_processed' =
           (pc = "done" \/ abort_reason \in {"relpath ValueError", "git push"})
    /\ UNCHANGED <<exclude_keywords, feed, store, images, grep_failed>>

Next ==
    \/ CloneOrUpdateRepo
    \/ FetchHabrArticles
    \/ FetchGithubArticles
    \/ ProcessArticle
    \/ CommitAndPushChanges
    \/ NextRun

-----------------------------------------------------------------------------
(* Properties *)

\* The run has the result of fetch_habr_articles.
Fetched == pc \in {"fetch_github", "process", "publish", "done"}

\* The links of the entries this run wrote, in the order it wrote them.
ProcessedLinks ==
    [i \in 1..Len(created_files) |-> store[created_files[i][1].text].url]

\* The links of the kept items that the enumeration of the store did not
\* return, in feed order.
ExpectedLinks ==
    LET fresh == SelectSeq(habr_articles,
                           LAMBDA a : a.link \notin github_articles)
    IN  [i \in 1..Len(fresh) |-> fresh[i].link]

IsPrefix(s, t) == Len(s) <= Len(t) /\ SubSeq(t, 1, Len(s)) = s

\* The entry files written or rewritten since the run began.
Written ==
    {n \in DOMAIN store : n \notin DOMAIN store0 \/ store[n] # store0[n]}

\* C1: no entry is written for a kept item whose canonical link the
\* enumeration of the store returned; the articles processed are exactly
\* the kept items whose link it did not return, in feed order.
C1_DedupAgainstStore ==
    /\ \A n \in Written : store[n].url \notin github_articles
    /\ pc \in {"process", "publish", "done"} =>
           IsPrefix(ProcessedLinks, ExpectedLinks)
    /\ pc \in {"publish", "done"} => ProcessedLinks = ExpectedLinks

\* A run that skipped a kept item found in the store and processed another.
C1_Witness ==
    /\ pc = "publish"
    /\ created_files # <<>>
    /\ \E i \in 1..Len(habr_articles) :
           habr_articles[i].link \in github_articles

\* C2: a run that follows a run which got through its loop, on the same
\* feed and the store that run left, writes no file and records no
\* artifact.
C2_Idempotent ==
    (run > 1 /\ prev_processed) =>
        /\ store = store0
        /\ images = images0
        /\ created_files = <<>>

\* The names of the entries this run wrote, in the order it wrote them.
CreatedNames == [i \in 1..Len(created_files) |-> created_files[i][1].text]

\* C3 (state part): two articles of one run get different names, and when
\* their titles give the same base name the later one is the base name
\* with a numeric suffix.
C3_DistinctInRun ==
    \A i, j \in 1..Len(created_files) :
        i < j =>
            /\ CreatedNames[i] # CreatedNames[j]
            /\ BaseName(new_articles[i].title) = BaseName(new_articles[j].title)
                   => \E k \in 1..(Cardinality(DOMAIN store) + 1) :
                          CreatedNames[j] =
                              BaseName(new_articles[j].title) \o <<"_">> \o str(k)

\* C3: the name transliterate_filename returns is not the name of an
\* entry file of the store at the call, no step overwrites or removes an
\* entry file, and names within one run are distinct and suffixed.
C3_NoCollision ==
    /\ [][/\ pc = "process" =>
                 filename' \notin DOMAIN store /\ filename' \in DOMAIN store'
          /\ \A n \in DOMAIN store :
                 n \in DOMAIN store' /\ store'[n] = store[n]]_vars
    /\ []C3_DistinctInRun

\* Two articles of one run with the same base name, the second suffixed.
C3_Witness ==
    /\ Len(created_files) = 2
    /\ BaseName(new_articles[1].title) = BaseName(new_articles[2].title)
    /\ CreatedNames[1] = BaseName(new_articles[1].title)
    /\ CreatedNames[2] = CreatedNames[1] \o <<"_", "1">>

\* C4: a run with --dry-run leaves the entry files and the image files as
\* it found them.
C4_DryRunWritesNothing ==
    dry_run => store = store0 /\ images = images0

\* C5: an article whose image could not be saved (download, decoding or
\* encoding failed, or no image URL) has its entry file written and one
\* artifact with the entry path and no image path; the loop goes on to the
\* remaining articles.
C5_ImageFailureTolerated ==
    /\ Len(image_log) = Len(created_files)
    /\ \A i \in 1..Len(image_log) :
           image_log[i] # "saved" =>
               /\ created_files[i][1].kind = "str"
               /\ created_files[i][1].text \in DOMAIN store
               /\ store[created_files[i][1].text].url = new_articles[i].link
               /\ store[created_files[i][1].text].title = new_articles[i].title
               /\ created_files[i][2] = None
    /\ (store # store0 /\ pc # "process") =>
           Len(created_files) = Len(new_articles)
    /\ abort_reason # "Exception"

\* A failed download and a missing image URL, each followed by the
\* processing of a further article.
C5_Witness ==
    /\ pc = "publish"
    /\ Len(image_log) = 2
    /\ image_log[1] \in {"fetch_error", "decode_error", "no_url"}
    /\ created_files[1][2] = None
    /\ created_files[2][1].text \in DOMAIN store

\* The timestamp of an item does not conform to the expected format.
BadTimestamp(item) ==
    item.pubDate.kind # "text" \/ item.pubDate.text # GoodDate

\* C6: a run that ends on a failed fetch, an unparseable document or a
\* non-conforming timestamp has written nothing; a feed with such a
\* timestamp in any item, kept or excluded, never gets a run past the
\* fetch.
C6_AbortBeforeWrites ==
    /\ abort_reason \in {"HTTPError", "ParseError", "strptime ValueError"} =>
           store = store0 /\ images = images0 /\ created_files = <<>>
    /\ (\E i \in 1..Len(feed) : BadTimestamp(feed[i])) =>
           /\ ~Fetched
           /\ store = store0 /\ images = images0 /\ created_files = <<>>

\* The run aborted on the timestamp of the second item, after a
\* well-formed kept item that the store does not hold.
C6_Witness ==
    /\ pc = "aborted"
    /\ abort_reason = "strptime ValueError"
    /\ Len(feed) = 2
    /\ feed[1] = ItemLong
    /\ BadTimestamp(feed[2])
    /\ store = store0

\* The three rules as the specification words them, each ignoring case on
\* both sides.
TextOf(e) == IF e.kind = "text" THEN e.text ELSE <<>>

AuthorRule(item) ==
    \E a \in 1..Len(EXCLUDE_AUTHORS) :
        Contains(Lower(TextOf(item.creator)), Lower(EXCLUDE_AUTHORS[a]))

KeywordTextRule(item, keywords) ==
    \E k \in 1..Len(keywords) :
        Contains(Lower(TextOf(item.title) \o TextOf(item.description)),
                 Lower(keywords[k]))

KeywordCategoryRule(item, keywords) ==
    \E c \in 1..Len(item.categories) : \E k \in 1..Len(keywords) :
        Contains(Lower(TextOf(item.categories[c])), Lower(keywords[k]))

FirstRule(item, keywords) ==
    IF AuthorRule(item) THEN "author excluded"
    ELSE IF KeywordTextRule(item, keywords) THEN "keyword in title/description"
    ELSE IF KeywordCategoryRule(item, keywords) THEN "keyword in category"
    ELSE "None"

\* C7: the excluded items are, in feed order, the items that one of the
\* three rules matches, each with the reason of the first rule that
\* matches in the order author, title+description, category; the kept
\* items are the items no rule matches.
C7_FirstMatchWins ==
    Fetched =>
        LET dropped == SelectSeq(feed,
                LAMBDA it : FirstRule(it, exclude_keywords) # "None")
            kept == SelectSeq(feed,
                LAMBDA it : FirstRule(it, exclude_keywords) = "None")
        IN  /\ excluded =
                 [i \in 1..Len(dropped) |->
                     [link |-> BeforeQuery(dropped[i].link.text),
                      reason |-> FirstRule(dropped[i], exclude_keywords)]]
            /\ [i \in 1..Len(habr_articles) |->
                    <<habr_articles[i].title, habr_articles[i].link>>] =
               [i \in 1..Len(kept) |->
                    <<TextOf(kept[i].title), BeforeQuery(kept[i].link.text)>>]

\* An item that the author rule and a keyword rule both match is reported
\* as author excluded, beside an item that is kept.
C7_Witness ==
    /\ Fetched
    /\ Len(feed) = 2
    /\ AuthorRule(feed[1])
    /\ KeywordTextRule(feed[1], exclude_keywords)
    /\ excluded = <<[link |-> <<"d">>, reason |-> "author excluded"]>>
    /\ Len(habr_articles) = 1

C9_MissingFieldsTolerated ==
    (\A i \in 1..Len(feed) :
        feed[i].link.kind = "text" /\ ~BadTimestamp(feed[i])) =>
        /\ abort_reason # "AttributeError"
        /\ Fetched => Len(habr_articles) + Len(excluded) = Len(feed)

\* link.split('?')[0] of the url of an entry: its canonical link.
CanonicalLinks(st) == {BeforeQuery(st[n].url) : n \in DOMAIN st}

\* C10: no two entries of the store have the same canonical link.  The
\* stores of InitStores have none, and the formula asks it only of the
\* behaviours in which grep never failed: a violation is a violation of
\* the claim that owes nothing to the failure of the enumeration.
C10_NoDuplicateLinks ==
    grep_failed \/ \A m, n \in DOMAIN store :
        m # n => BeforeQuery(store[m].url) # BeforeQuery(store[n].url)

Spec == Init /\ [][Next]_vars

SpecCfg == InitCfg /\ [][Next]_vars

====
